---- MODULE Spec2Model ----
(***************************************************************************)
(* Model of the divide-and-conquer 2D extraction of specter:               *)
(*   py/specter/extract/ex2d_patch_gpu.py         (variant "gpu")          *)
(*   py/specter/extract/ex2d_patch_gpu_matrix.py  (variant "matrix")       *)
(*                                                                         *)
(* Several state machines share the module:                                  *)
(*   SpecSplit   split_bundle(bundlesize, n), one step per statement       *)
(*   Spec        ex2d, the wavelength-patch loop in ascending order        *)
(*   SpecWorkers ex2d with the patches run by workers in any order         *)
(*   SpecPatch   resolution_from_icov and the resolution half of           *)
(*               ex2d_patch on exact (integer / rational) matrices         *)
(*   SpecNdiag   ex2d: the computation of ndiag and the allocation of Rd   *)
(*   SpecSolve   ex2d calling ex2d_patch: regularization and the system    *)
(*               handed to the solver                                      *)
(*   SpecEigen   eigen_compose on its eigenvalues                          *)
(*   SpecDiag    ex2d with full_output: the chi2pix diagnostic of a patch  *)
(* A specification leaves the variables of the other machines idle.        *)
(***************************************************************************)
EXTENDS Integers, Sequences, FiniteSets, TLC

VARIABLES
    \* ---- split_bundle
    bundlesize,          \* argument
    n,                   \* argument
    spc,                 \* position in split_bundle
    n_per_subbundle,     \* list of subbundle sizes
    i,                   \* index of the swap loop
    subbundles,          \* result: list of index arrays
    extract_subbundles,  \* result: list of index arrays with edge overlap
    \* ---- ex2d
    variant,             \* "gpu": ex2d_patch_gpu.py, "matrix": ex2d_patch_gpu_matrix.py
    wavelengths,         \* argument: the wavelength grid (integers)
    wavesize,            \* argument: wavelength steps per patch
    nspec,               \* argument: number of spectra
    full_output,         \* argument
    pc,                  \* position in ex2d
    err,                 \* the exception raised, "none" if none
    ndiag,               \* half-width of the resolution band
    psf_lo,              \* PSF: int((wlo - psf.wavelength(speclo, ymin))/dw) - 1
    psf_hi,              \* PSF: int((psf.wavelength(speclo, ymax) - whi)/dw) - 1
    pending,             \* values of iwave whose patch is still to be extracted
    iwave,               \* the patch extracted last
    flux,                \* output array, one cell per wavelength column
    ivar,                \* output array
    Rd,                  \* output array: resolution band per wavelength column
    pixmask_fraction,    \* diagnostic output array (full_output)
    chi2pix,             \* diagnostic output array (full_output)
    modelimage,          \* diagnostic output (full_output): the sub-images written, in order
    psferr,              \* argument, then the fractional PSF error in use
    writers,             \* history: the patches that assigned each column of flux/ivar
    psfcalls,            \* history: number of calls of PSF provider methods
    returned,            \* the names of the arrays returned, <<>> before the return
    \* ---- ex2d: the PSF seen by the computation of ndiag
    wdisp18,             \* PSF: 18*psf.wdisp(ispec, w), per spectrum and sampled wavelength
    spotsize,            \* PSF: psf.pix(0, wmid).shape
    Rd_shape,            \* shape of the array Rd allocated
    \* ---- ex2d calling ex2d_patch: the system solved for one patch
    regularize,          \* argument of ex2d
    A,                   \* psf.projection_matrix(...): npix rows, one column per flux bin
    image,               \* image.ravel() of the patch
    pixivar,             \* ivar.ravel() of the patch (the pixel weights w)
    spos,                \* position in the call
    regularize_patch,    \* the regularize that ex2d_patch works with
    fluxweight,          \* W.dot(A).sum(axis=0)
    Idiag,               \* diagonal of the regularization block, rationals
    Ax,                  \* the matrix of the system, rational entries
    wx,                  \* the weights of the system
    pix,                 \* the pixel vector of the system
    iCov,                \* Ax.T W Ax, rational entries
    y,                   \* Ax.T W pix, rationals
    xflux,               \* the raw flux: the solver and the system it is given
    \* ---- resolution_from_icov, ex2d_patch
    fn,                  \* the function called
    icov,                \* argument / iCov: the inverse covariance matrix
    decorr,              \* argument of resolution_from_icov: "None" or block sizes
    shape,               \* (nspec, nwave) of ex2d_patch
    ndecorr,             \* argument of ex2d_patch
    ppc,                 \* position in the function
    perr,                \* the exception raised, "none" if none
    sqrt_icov,           \* sqrt_icov / Q
    norm_vector,         \* row sums of sqrt_icov
    R,                   \* resolution matrix, rational entries
    patch_ivar,          \* the ivar returned
    \* ---- eigen_compose
    eigw,                \* argument w: the eigenvalues
    invert,              \* argument
    sqr,                 \* argument
    wscaled,             \* the scaled eigenvalues of the calls made, by call
    epos,                \* number of calls made
    \* ---- ex2d: the chi2pix diagnostic of one patch (full_output)
    submodel,            \* A.dot(xflux): the model of the patch, per pixel
    subimg,              \* the image of the patch, per pixel
    subivar,             \* the inverse variance of the patch, per pixel
    totpix_ivar,         \* combined weight per pixel, rationals
    psfweight,           \* A.T.dot(totpix_ivar > 0), per flux bin
    chi2x,               \* chi2pix of the patch, per flux bin: rationals or NaN
    dpos                 \* position in the diagnostics

splitVars == <<bundlesize, n, spc, n_per_subbundle, i, subbundles, extract_subbundles>>

ex2dVars == <<variant, wavelengths, wavesize, nspec, full_output, pc, err, ndiag,
              psf_lo, psf_hi, pending, iwave, flux, ivar, Rd, pixmask_fraction,
              chi2pix, modelimage, psferr, writers, psfcalls, returned>>

patchVars == <<fn, icov, decorr, shape, ndecorr, ppc, perr, sqrt_icov, norm_vector, R, patch_ivar>>

ndiagVars == <<wdisp18, spotsize, Rd_shape>>

solveVars == <<regularize, A, image, pixivar, spos, regularize_patch, fluxweight,
               Idiag, Ax, wx, pix, iCov, y, xflux>>

eigenVars == <<eigw, invert, sqr, wscaled, epos>>

diagVars == <<submodel, subimg, subivar, totpix_ivar, psfweight, chi2x, dpos>>

vars == <<splitVars, ex2dVars, patchVars, ndiagVars, solveVars, eigenVars, diagVars>>

(***************************************************************************)
(* Bounds of the model.                                                    *)
(***************************************************************************)
MaxBundlesize == 10
MaxNwave == 5        \* longest wavelength grid
MaxStep == 2         \* largest step between consecutive wavelengths
MaxWavesize == 3     \* largest wavesize
MaxNdiag == 2        \* largest round(9*wdisp/dw) of the PSF
MaxSpot == 3         \* largest side of the PSF spot, in pixels
MaxBorder == 2       \* largest PSF-derived border, in wavelength bins
MaxQ == 3            \* largest entry of the square root of an inverse covariance
MaxWdisp == 2        \* largest per-spectrum part of 18*psf.wdisp
MaxRegularize == 1   \* largest regularize
MaxExp == 50         \* smallest eigenvalue of eigen_compose: 2^(-2*MaxExp)
MaxCounts == 1       \* largest pixel value (image, model, inverse variance)

(***************************************************************************)
(* Program constants.                                                      *)
(***************************************************************************)
KeepLen == 25        \* keep = np.ones(25, dtype=bool)
PsfPsferr == 1       \* psf.psferr, the value saved with the PSF (in percent)

(***************************************************************************)
(* Helpers.                                                                *)
(***************************************************************************)
Min(a, b) == IF a < b THEN a ELSE b
Max(a, b) == IF a > b THEN a ELSE b

\* np.arange(lo, hi): the sequence lo, lo+1, ..., hi-1
Arange(lo, hi) == [k \in 1..Max(hi - lo, 0) |-> lo + k - 1]

SeqToSet(s) == {s[k] : k \in 1..Len(s)}

(***************************************************************************)
(* split_bundle                                                            *)
(***************************************************************************)

\* mutant: the whole remainder goes to the first section
ArraySplitSizes_RemainderFirst(size, sections) ==
    [k \in 1..sections |->
        (size \div sections) + (IF k = 1 THEN size % sections ELSE 0)]

\* mutant: the last size % sections sections are the larger ones
ArraySplitSizes_RemainderLast(size, sections) ==
    [k \in 1..sections |->
        (size \div sections) + (IF k > sections - (size % sections) THEN 1 ELSE 0)]

\* [len(x) for x in np.array_split(np.arange(size), sections)]:
\* the first size % sections sections get size // sections + 1 elements,
\* the others size // sections.
ArraySplitSizes(size, sections) ==
    [k \in 1..sections |->
        (size \div sections) + (IF k <= size % sections THEN 1 ELSE 0)]

\* mutant: a sequential "swap" that loses the smaller value
SwapAt_Overwrite(sizes, k) ==
    [sizes EXCEPT ![k + 1] = sizes[k]]

\* mutant: the assignment leaves the list as it was
SwapAt_Identity(sizes, k) == sizes

\* n_per_subbundle[i+1], n_per_subbundle[i] = n_per_subbundle[i], n_per_subbundle[i+1]
\* (k is the 1-based position of python index i)
SwapAt(sizes, k) ==
    [sizes EXCEPT ![k] = sizes[k + 1], ![k + 1] = sizes[k]]

\* mutant: imin is not advanced
PopulateSubbundles_NoAdvance(sizes, imin) ==
    [k \in 1..Len(sizes) |-> Arange(imin, imin + sizes[k])]

\* for nsub in n_per_subbundle:
\*     subbundles.append(np.arange(imin, imin+nsub)); imin += nsub
RECURSIVE PopulateSubbundles(_, _)
PopulateSubbundles(sizes, imin) ==
    IF sizes = <<>> THEN <<>>
    ELSE <<Arange(imin, imin + Head(sizes))>>
             \o PopulateSubbundles(Tail(sizes), imin + Head(sizes))

\* mutant: the high-side pad is added also at the global edge
ExtractOf_PadAlways(ii, size) ==
    LET ipre  == IF ii[1] > 0 THEN <<ii[1] - 1>> ELSE <<>>
        ipost == <<ii[Len(ii)] + 1>>
    IN  ipre \o ii \o ipost

\* ipre  = [ii[0]-1,]  if ii[0] > 0 else empty
\* ipost = [ii[-1]+1,] if ii[-1] < bundlesize-1 else empty
\* np.concatenate([ipre, ii, ipost])
ExtractOf(ii, size) ==
    LET ipre  == IF ii[1] > 0 THEN <<ii[1] - 1>> ELSE <<>>
        ipost == IF ii[Len(ii)] < size - 1 THEN <<ii[Len(ii)] + 1>> ELSE <<>>
    IN  ipre \o ii \o ipost

IdleSplit ==
    /\ bundlesize = 0
    /\ n = 0
    /\ spc = "idle"
    /\ n_per_subbundle = <<>>
    /\ i = 0
    /\ subbundles = <<>>
    /\ extract_subbundles = <<>>

\* the psferr arguments of the model: None, or a value in percent
PsferrNone == [is_none |-> TRUE, value |-> 0]

PsferrOf(v) == [is_none |-> FALSE, value |-> v]

IdleEx2d ==
    /\ variant = "none"
    /\ wavelengths = <<>>
    /\ wavesize = 0
    /\ nspec = 0
    /\ full_output = FALSE
    /\ pc = "idle"
    /\ err = "none"
    /\ ndiag = 0
    /\ psf_lo = 0
    /\ psf_hi = 0
    /\ pending = {}
    /\ iwave = 0
    /\ flux = <<>>
    /\ ivar = <<>>
    /\ Rd = <<>>
    /\ pixmask_fraction = <<>>
    /\ chi2pix = <<>>
    /\ modelimage = <<>>
    /\ psferr = PsferrNone
    /\ writers = <<>>
    /\ psfcalls = 0
    /\ returned = <<>>

\* the decorr arguments of the model: None, or a list of block sizes
DecorrNone == [is_none |-> TRUE, blocks |-> <<>>]

DecorrList(blocks) == [is_none |-> FALSE, blocks |-> blocks]

DecorrLists == {DecorrList(l) : l \in {<<1>>, <<2>>, <<1, 1>>, <<1, 2>>, <<2, 1>>, <<2, 2>>}}

IdlePatch ==
    /\ fn = "none"
    /\ icov = <<>>
    /\ decorr = DecorrNone
    /\ shape = <<>>
    /\ ndecorr = FALSE
    /\ ppc = "idle"
    /\ perr = "none"
    /\ sqrt_icov = <<>>
    /\ norm_vector = <<>>
    /\ R = <<>>
    /\ patch_ivar = <<>>

IdleNdiag ==
    /\ wdisp18 = <<>>
    /\ spotsize = <<>>
    /\ Rd_shape = <<>>

IdleSolve ==
    /\ regularize = 0
    /\ A = <<>>
    /\ image = <<>>
    /\ pixivar = <<>>
    /\ spos = "idle"
    /\ regularize_patch = 0
    /\ fluxweight = <<>>
    /\ Idiag = <<>>
    /\ Ax = <<>>
    /\ wx = <<>>
    /\ pix = <<>>
    /\ iCov = <<>>
    /\ y = <<>>
    /\ xflux = <<>>

IdleEigen ==
    /\ eigw = <<>>
    /\ invert = FALSE
    /\ sqr = FALSE
    /\ wscaled = <<>>
    /\ epos = 0

IdleDiag ==
    /\ submodel = <<>>
    /\ subimg = <<>>
    /\ subivar = <<>>
    /\ totpix_ivar = <<>>
    /\ psfweight = <<>>
    /\ chi2x = <<>>
    /\ dpos = "idle"

InitSplit ==
    /\ IdleEigen
    /\ IdleDiag
    /\ IdleEx2d
    /\ IdlePatch
    /\ IdleNdiag
    /\ IdleSolve
    /\ bundlesize \in 1..MaxBundlesize
    /\ n \in 1..(MaxBundlesize + 1)
    /\ spc = "start"
    /\ n_per_subbundle = <<>>
    /\ i = 0
    /\ subbundles = <<>>
    /\ extract_subbundles = <<>>

\* mutant: one subbundle more than fibers is let through
TooManySubbundles_OffByOne(size, sections) == sections > size + 1

\* if n > bundlesize
TooManySubbundles(size, sections) == sections > size

\* if n > bundlesize: raise ValueError
SplitRaise ==
    /\ spc = "start"
    /\ TooManySubbundles(bundlesize, n)
    /\ spc' = "ValueError"
    /\ UNCHANGED <<bundlesize, n, n_per_subbundle, i, subbundles, extract_subbundles, ex2dVars, patchVars, ndiagVars, solveVars,
                   eigenVars, diagVars>>

\* initial partition into subbundles; i = 0
SplitPartition ==
    /\ spc = "start"
    /\ ~TooManySubbundles(bundlesize, n)
    /\ n_per_subbundle' = ArraySplitSizes(bundlesize, n)
    /\ i' = 0
    /\ spc' = "swap"
    /\ UNCHANGED <<bundlesize, n, subbundles, extract_subbundles, ex2dVars, patchVars, ndiagVars, solveVars,
                   eigenVars, diagVars>>

\* one iteration of: while i < n-1
SplitSwap ==
    /\ spc = "swap"
    /\ i < n - 1
    /\ n_per_subbundle' =
          IF n_per_subbundle[i + 1] > n_per_subbundle[i + 2]
          THEN SwapAt(n_per_subbundle, i + 1)
          ELSE n_per_subbundle
    /\ i' = i + 1
    /\ UNCHANGED <<bundlesize, n, spc, subbundles, extract_subbundles, ex2dVars, patchVars, ndiagVars, solveVars,
                   eigenVars, diagVars>>

\* populate non-overlapping indices for subbundles
SplitPopulate ==
    /\ spc = "swap"
    /\ ~(i < n - 1)
    /\ subbundles' = PopulateSubbundles(n_per_subbundle, 0)
    /\ spc' = "extract"
    /\ UNCHANGED <<bundlesize, n, n_per_subbundle, i, extract_subbundles, ex2dVars, patchVars, ndiagVars, solveVars,
                   eigenVars, diagVars>>

\* populate overlapping indices for extract_subbundles; return
SplitExtract ==
    /\ spc = "extract"
    /\ extract_subbundles' =
          [k \in 1..Len(subbundles) |-> ExtractOf(subbundles[k], bundlesize)]
    /\ spc' = "done"
    /\ UNCHANGED <<bundlesize, n, n_per_subbundle, i, subbundles, ex2dVars, patchVars, ndiagVars, solveVars,
                   eigenVars, diagVars>>

NextSplit ==
    \/ SplitRaise
    \/ SplitPartition
    \/ SplitSwap
    \/ SplitPopulate
    \/ SplitExtract

SpecSplit == InitSplit /\ [][NextSplit]_vars

(***************************************************************************)
(* ex2d: the wavelength-patch loop.                                        *)
(*                                                                         *)
(* Every spectrum row of an output array is written by the same statement  *)
(* (keep is all-true), so an array is modelled by one cell per wavelength  *)
(* column.  A cell records where its value comes from: the patch (its      *)
(* iwave), the patch-local column of the result of ex2d_patch, for Rd the  *)
(* rows of the band slice, and the factor applied by the unit conversion.  *)
(* The model image (pixel space) is not modelled.                          *)
(***************************************************************************)
ZeroCell ==
    [kind |-> "zero", patch |-> -1, col |-> -1, rows |-> <<>>, scale |-> <<1, 1>>,
     psferr |-> 0]

\* mutant: the PSF model error also enters the weights behind ivar
PsferrUsedBy_AlsoIvar(kind) == IF kind \in {"chi2pix", "ivar"} THEN psferr.value ELSE 0

\* the psferr a quantity of the patch is computed from, 0 if it is computed
\* without psferr: only chi2x reads it (modelivar = (submodel*psferr + 1e-32)**-2)
PsferrUsedBy(kind) == IF kind = "chi2pix" THEN psferr.value ELSE 0

Cell(kind, p, j, rows) ==
    [kind |-> kind, patch |-> p, col |-> j, rows |-> rows, scale |-> <<1, 1>>,
     psferr |-> PsferrUsedBy(kind)]

Nwave == Len(wavelengths)

\* wavelengths[k], python index
Wl(k) == wavelengths[k + 1]

\* np.diff(wavelengths)
Diff(w) == [k \in 1..(Len(w) - 1) |-> w[k + 1] - w[k]]

\* np.allclose(a, b) for integers: |a - b| <= 1e-8 + 1e-5 * |b|
AllClose(a, b) ==
    100000000 * (IF a < b THEN b - a ELSE a - b) <= 1 + 1000 * (IF b < 0 THEN -b ELSE b)

\* mutant: only the first step is compared with dw
IsLinearGrid_FirstStepOnly(w) ==
    AllClose(w[2] - w[1], Diff(w)[1])

\* dw = wavelengths[1] - wavelengths[0]; np.allclose(dw, np.diff(wavelengths))
IsLinearGrid(w) ==
    \A k \in 1..(Len(w) - 1) : AllClose(w[2] - w[1], Diff(w)[k])

Dw == wavelengths[2] - wavelengths[1]

\* the grids of the model: start at 0, steps in 1..MaxStep
RECURSIVE GridsOfLen(_)
GridsOfLen(len) ==
    IF len = 1 THEN {<<0>>}
    ELSE {Append(w, w[Len(w)] + d) : w \in GridsOfLen(len - 1), d \in 1..MaxStep}

Grids == UNION {GridsOfLen(len) : len \in 2..MaxNwave}

\* mutant: the patches start every wavesize+2 columns
PatchStarts_Sparse == {p \in 0..(Nwave - 1) : p % (wavesize + 2) = 0}

\* range(0, len(wavelengths), wavesize)
PatchStarts == {p \in 0..(Nwave - 1) : p % wavesize = 0}

\* python index normalisation of a slice bound
NormIdx(x, len) == IF x < 0 THEN Max(x + len, 0) ELSE Min(x, len)

\* the indices selected by the python slice lo:hi of an axis of length len
PySlice(lo, hi, len) == Arange(NormIdx(lo, len), NormIdx(hi, len))

\* Low and high wavelengths for the core region
Wlo(p) == Wl(p)
Whi(p) == IF p + wavesize < Nwave THEN Wl(p + wavesize) ELSE Wl(Nwave - 1)

\* mutant: the upper border is the PSF-derived one alone
Nhi_PsfOnly == psf_hi

\* nlo = max(int(...)-1, ndiag); nhi = max(int(...)-1, ndiag)
Nlo == Max(psf_lo, ndiag)
Nhi == Max(psf_hi, ndiag)

\* nw = len(np.arange(wlo-nlo*dw, whi+(nhi+0.5)*dw, dw)): ceil((stop-start)/dw)
Nw(p) ==
    LET span2 == 2 * (Whi(p) - Wlo(p)) + (2 * (Nlo + Nhi) + 1) * Dw
    IN  (span2 + 2 * Dw - 1) \div (2 * Dw)

\* mutant: the slice stops before column iwave+wavesize
DstCols_Exclusive(p) == PySlice(p, p + wavesize, Nwave)

\* the columns iwave:iwave+wavesize+1 of an output array
DstCols(p) == PySlice(p, p + wavesize + 1, Nwave)

\* the columns nlo:-nhi of a result of ex2d_patch
SrcCols(p) == PySlice(Nlo, -Nhi, Nw(p))

\* numpy assignment dst[...] = src[...]: shapes must match or src broadcasts
CanAssign(dstlen, srclen) == srclen = dstlen \/ srclen = 1

\* arr[:, dst] = specarr[:, src]
AssignCols(arr, kind, p, dst, src) ==
    [k \in DOMAIN arr |->
        IF \E c \in 1..Len(dst) : dst[c] = k
        THEN LET c == CHOOSE c \in 1..Len(dst) : dst[c] = k
             IN  Cell(kind, p, src[IF Len(src) = 1 THEN 1 ELSE c], <<>>)
        ELSE arr[k]]

\* Rx[j-ndiag:j+ndiag+1, j]
BandRows(p, j) == PySlice(j - ndiag, j + ndiag + 1, Nw(p))

\* range(nlo, nw-nhi)
CoreCols(p) == Arange(Nlo, Nw(p) - Nhi)

\* for j in range(nlo, nw-nhi): Rd[ispec-specmin, :, iwave+j-nlo] = Rx[j-ndiag:j+ndiag+1, j]
FillRd(arr, p) ==
    [k \in DOMAIN arr |->
        IF \E c \in 1..Len(CoreCols(p)) : p + CoreCols(p)[c] - Nlo = k
        THEN LET j == k - p + Nlo
             IN  Cell("R", p, j, BandRows(p, j))
        ELSE arr[k]]

\* the exception the Rd loop of patch p raises, "none" if none
FillRdError(p) ==
    IF \E c \in 1..Len(CoreCols(p)) : p + CoreCols(p)[c] - Nlo >= Nwave
    THEN "IndexError"
    ELSE IF \E c \in 1..Len(CoreCols(p)) :
                ~CanAssign(2 * ndiag + 1, Len(BandRows(p, CoreCols(p)[c])))
         THEN "ValueError"
         ELSE "none"

\* mutant: the Rd loop sits inside "if full_output" in both files
RdIsFilled_OnlyFullOutput == full_output

\* whether the loop that fills Rd runs: in ex2d_patch_gpu_matrix.py it is
\* indented under "if full_output:", in ex2d_patch_gpu.py it is not
RdIsFilled == variant = "gpu" \/ full_output

\* the exception one iteration of the patch loop raises, "none" if none
PatchError(p) ==
    IF nspec # KeepLen                       \* iispec[keep], keep of length 25
    THEN "IndexError"
    ELSE IF ~CanAssign(Len(DstCols(p)), Len(SrcCols(p)))
         THEN "ValueError"
         ELSE IF RdIsFilled THEN FillRdError(p) ELSE "none"

\* the arrays after one iteration of the patch loop that raises nothing
ApplyPatch(arrs, p) ==
    [flux |-> AssignCols(arrs.flux, "flux", p, DstCols(p), SrcCols(p)),
     ivar |-> AssignCols(arrs.ivar, "ivar", p, DstCols(p), SrcCols(p)),
     pixmask_fraction |->
        IF full_output
        THEN AssignCols(arrs.pixmask_fraction, "pixmask_fraction", p, DstCols(p), SrcCols(p))
        ELSE arrs.pixmask_fraction,
     chi2pix |->
        IF full_output
        THEN AssignCols(arrs.chi2pix, "chi2pix", p, DstCols(p), SrcCols(p))
        ELSE arrs.chi2pix,
     modelimage |->
        IF full_output
        THEN Append(arrs.modelimage, Cell("modelimage", p, -1, <<>>))
        ELSE arrs.modelimage,
     Rd |-> IF RdIsFilled THEN FillRd(arrs.Rd, p) ELSE arrs.Rd]

\* np.gradient(wavelengths), doubled to stay in the integers
Gradient2(w) ==
    [k \in 1..Len(w) |->
        IF k = 1 THEN 2 * (w[2] - w[1])
        ELSE IF k = Len(w) THEN 2 * (w[k] - w[k - 1])
        ELSE w[k + 1] - w[k - 1]]

\* flux /= dwave
DivideByDwave(arr) ==
    [k \in DOMAIN arr |->
        [arr[k] EXCEPT !.scale = <<2 * arr[k].scale[1], Gradient2(wavelengths)[k + 1] * arr[k].scale[2]>>]]

\* mutant: ivar *= dwave
TimesDwaveSquared_NotSquared(arr) ==
    [k \in DOMAIN arr |->
        [arr[k] EXCEPT !.scale = <<Gradient2(wavelengths)[k + 1] * arr[k].scale[1],
                                   2 * arr[k].scale[2]>>]]

\* ivar *= dwave**2
TimesDwaveSquared(arr) ==
    [k \in DOMAIN arr |->
        [arr[k] EXCEPT !.scale = <<Gradient2(wavelengths)[k + 1] * Gradient2(wavelengths)[k + 1] * arr[k].scale[1],
                                   4 * arr[k].scale[2]>>]]

Zeros == [k \in 0..(Nwave - 1) |-> ZeroCell]

\* mutant: only the height of the spot limits ndiag
ClampNdiag_HeightOnly(nd, spot) == Min(nd, spot[1] \div 2)

\* ndiag = min(ndiag, spotsize[0]//2, spotsize[1]//2)
ClampNdiag(nd, spot) == Min(nd, Min(spot[1] \div 2, spot[2] \div 2))

InitEx2d ==
    /\ variant \in {"gpu", "matrix"}
    /\ wavelengths \in Grids
    /\ wavesize \in 1..MaxWavesize
    /\ nspec \in {1, KeepLen}
    /\ full_output \in BOOLEAN
    /\ pc = "start"
    /\ err = "none"
    /\ ndiag = 0
    /\ psf_lo = 0
    /\ psf_hi = 0
    /\ pending = {}
    /\ iwave = 0
    /\ flux = <<>>
    /\ ivar = <<>>
    /\ Rd = <<>>
    /\ pixmask_fraction = <<>>
    /\ chi2pix = <<>>
    /\ modelimage = <<>>
    /\ psferr \in {PsferrNone, PsferrOf(2)}
    /\ writers = <<>>
    /\ psfcalls = 0
    /\ returned = <<>>

\* if not np.allclose(dw, np.diff(wavelengths)): raise ValueError
Ex2dRaiseGrid ==
    /\ pc = "start"
    /\ ~IsLinearGrid(wavelengths)
    /\ pc' = "raised"
    /\ err' = "ValueError"
    /\ UNCHANGED <<variant, wavelengths, wavesize, nspec, full_output, ndiag, psf_lo,
                   psf_hi, pending, iwave, flux, ivar, Rd, pixmask_fraction, chi2pix,
                   modelimage, psferr, writers, psfcalls, returned, splitVars, patchVars, ndiagVars, solveVars,
                   eigenVars, diagVars>>

\* allocate the output arrays, compute ndiag (9 calls of psf.wdisp, 1 of psf.pix)
Ex2dPlan ==
    /\ pc = "start"
    /\ IsLinearGrid(wavelengths)
    /\ \E r \in 0..MaxNdiag, h \in 1..MaxSpot, w \in 1..MaxSpot :
          ndiag' = ClampNdiag(r, <<h, w>>)
    /\ \E lo \in 0..MaxBorder, hi \in 0..MaxBorder :
          /\ psf_lo' = lo
          /\ psf_hi' = hi
    /\ flux' = Zeros
    /\ ivar' = Zeros
    /\ Rd' = Zeros
    /\ pixmask_fraction' = IF full_output THEN Zeros ELSE <<>>
    /\ chi2pix' = IF full_output THEN Zeros ELSE <<>>
    /\ modelimage' = <<>>
    /\ psferr' = IF psferr.is_none THEN PsferrOf(PsfPsferr) ELSE psferr
    /\ writers' = [k \in 0..(Nwave - 1) |-> {}]
    /\ pending' = PatchStarts
    /\ psfcalls' = psfcalls + 10
    /\ pc' = "loop"
    /\ UNCHANGED <<variant, wavelengths, wavesize, nspec, full_output, err, iwave,
                   returned, splitVars, patchVars, ndiagVars, solveVars,
                   eigenVars, diagVars>>

\* one iteration of the patch loop for iwave = p: 4 PSF calls in ex2d
\* (xyrange, pix, wavelength twice) and projection_matrix in ex2d_patch
Ex2dPatch(p) ==
    /\ pc = "loop"
    /\ p \in pending
    /\ iwave' = p
    /\ psfcalls' = psfcalls + 5
    /\ IF PatchError(p) # "none"
       THEN /\ pc' = "raised"
            /\ err' = PatchError(p)
            /\ UNCHANGED <<pending, flux, ivar, Rd, pixmask_fraction, chi2pix,
                           modelimage, writers>>
       ELSE LET arrs == ApplyPatch([flux |-> flux, ivar |-> ivar, Rd |-> Rd,
                                    pixmask_fraction |-> pixmask_fraction,
                                    chi2pix |-> chi2pix, modelimage |-> modelimage], p)
            IN  /\ flux' = arrs.flux
                /\ modelimage' = arrs.modelimage
                /\ ivar' = arrs.ivar
                /\ Rd' = arrs.Rd
                /\ pixmask_fraction' = arrs.pixmask_fraction
                /\ chi2pix' = arrs.chi2pix
                /\ writers' = [k \in DOMAIN writers |->
                                  IF k \in SeqToSet(DstCols(p))
                                  THEN writers[k] \cup {p} ELSE writers[k]]
                /\ pending' = pending \ {p}
                /\ UNCHANGED <<pc, err>>
    /\ UNCHANGED <<variant, wavelengths, wavesize, nspec, full_output, ndiag, psf_lo,
                   psf_hi, psferr, returned, splitVars, patchVars, ndiagVars, solveVars,
                   eigenVars, diagVars>>

\* the loop "for iwave in range(0, len(wavelengths), wavesize)" takes the
\* patches in ascending order
Ex2dLoop ==
    \E p \in pending :
        /\ \A q \in pending : p <= q
        /\ Ex2dPatch(p)

\* a pool of workers takes the patches in any order
Ex2dWorker ==
    \E p \in pending : Ex2dPatch(p)

\* after the loop: convert to photons/A and return
Ex2dReturn ==
    /\ pc = "loop"
    /\ pending = {}
    /\ flux' = DivideByDwave(flux)
    /\ ivar' = TimesDwaveSquared(ivar)
    /\ returned' = IF full_output
                   THEN <<"flux", "ivar", "resolution_data", "modelimage",
                          "pixmask_fraction", "chi2pix">>
                   ELSE <<"flux", "ivar", "Rd">>
    /\ pc' = "done"
    /\ UNCHANGED <<variant, wavelengths, wavesize, nspec, full_output, err, ndiag,
                   psf_lo, psf_hi, pending, iwave, Rd, pixmask_fraction, chi2pix,
                   modelimage, psferr, writers, psfcalls, splitVars, patchVars, ndiagVars, solveVars,
                   eigenVars, diagVars>>

Init == InitEx2d /\ IdleSplit /\ IdlePatch /\ IdleNdiag /\ IdleSolve /\ IdleEigen /\ IdleDiag

Next ==
    \/ Ex2dRaiseGrid
    \/ Ex2dPlan
    \/ Ex2dLoop
    \/ Ex2dReturn

Spec == Init /\ [][Next]_vars

NextWorkers ==
    \/ Ex2dRaiseGrid
    \/ Ex2dPlan
    \/ Ex2dWorker
    \/ Ex2dReturn

SpecWorkers == Init /\ [][NextWorkers]_vars

(***************************************************************************)
(* ex2d: the computation of ndiag and the allocation of Rd, step by step,  *)
(* on an explicit PSF (the lines are the same in both files).  specmin is  *)
(* 0; wdisp18[ispec+1][k] is 18*psf.wdisp(ispec, w) for w the k-th of      *)
(* [psf.wmin, 0.5*(psf.wmin+psf.wmax), psf.wmax].                          *)
(***************************************************************************)

\* int(round(a/b)) for a >= 0, b > 0: python 3 rounds a half to the even neighbour
RoundHalfEven(a, b) ==
    IF 2 * (a % b) < b THEN a \div b
    ELSE IF 2 * (a % b) > b THEN (a \div b) + 1
    ELSE IF (a \div b) % 2 = 0 THEN a \div b ELSE (a \div b) + 1

\* [specmin, specmin+nspec//2, specmin+nspec-1]
SampledSpectra == <<0, nspec \div 2, nspec - 1>>

\* int(round(9.0*psf.wdisp(ispec, w) / dw))
NdiagSample(ispec, k) == RoundHalfEven(wdisp18[ispec + 1][k], 2 * Dw)

\* the two nested loops, from their k-th iteration on (k = 0..9):
\* ndiag = max(ndiag, int(round(9.0*psf.wdisp(ispec, w) / dw)))
RECURSIVE NdiagLoop(_, _)
NdiagLoop(nd, k) ==
    IF k >= 9 THEN nd
    ELSE NdiagLoop(Max(nd, NdiagSample(SampledSpectra[(k \div 3) + 1], (k % 3) + 1)), k + 1)

\* the PSFs of the model: wdisp is a per-spectrum part plus a per-wavelength part
WdispTables(ns) ==
    {[s \in 1..ns |-> [k \in 1..3 |-> a[s] + b[k]]] :
        a \in [1..ns -> 0..MaxWdisp], b \in [1..3 -> 0..1]}

InitNdiag ==
    /\ IdleEigen
    /\ IdleDiag
    /\ IdleSplit
    /\ IdlePatch
    /\ IdleSolve
    /\ variant = "gpu"
    /\ wavelengths \in GridsOfLen(2)
    /\ wavesize = 1
    /\ nspec \in 1..3
    /\ full_output = FALSE
    /\ pc = "ndiag"
    /\ err = "none"
    /\ ndiag = 0
    /\ psf_lo = 0
    /\ psf_hi = 0
    /\ pending = {}
    /\ iwave = 0
    /\ flux = <<>>
    /\ ivar = <<>>
    /\ Rd = <<>>
    /\ pixmask_fraction = <<>>
    /\ chi2pix = <<>>
    /\ modelimage = <<>>
    /\ psferr = PsferrNone
    /\ writers = <<>>
    /\ psfcalls = 0
    /\ returned = <<>>
    /\ wdisp18 \in WdispTables(nspec)
    /\ spotsize \in {<<h, w>> : h \in 1..MaxSpot, w \in 1..MaxSpot}
    /\ Rd_shape = <<>>

\* ndiag = 0; for ispec in [...]: for w in [...]: ndiag = max(ndiag, ...)
Ex2dNdiagLoop ==
    /\ pc = "ndiag"
    /\ ndiag' = NdiagLoop(0, 0)
    /\ psfcalls' = psfcalls + 9
    /\ pc' = "clamp"
    /\ UNCHANGED <<variant, wavelengths, wavesize, nspec, full_output, err, psf_lo,
                   psf_hi, pending, iwave, flux, ivar, Rd, pixmask_fraction, chi2pix,
                   modelimage, psferr, writers, returned, splitVars, patchVars, ndiagVars, solveVars,
                   eigenVars, diagVars>>

\* make sure that ndiag isn't too large for actual PSF spot size
Ex2dNdiagClamp ==
    /\ pc = "clamp"
    /\ ndiag' = ClampNdiag(ndiag, spotsize)
    /\ psfcalls' = psfcalls + 1
    /\ pc' = "alloc"
    /\ UNCHANGED <<variant, wavelengths, wavesize, nspec, full_output, err, psf_lo,
                   psf_hi, pending, iwave, flux, ivar, Rd, pixmask_fraction, chi2pix,
                   modelimage, psferr, writers, returned, splitVars, patchVars, ndiagVars, solveVars,
                   eigenVars, diagVars>>

\* Rd = np.zeros( (nspec, 2*ndiag+1, nwave) )
Ex2dAllocRd ==
    /\ pc = "alloc"
    /\ Rd_shape' = <<nspec, 2 * ndiag + 1, Nwave>>
    /\ pc' = "planned"
    /\ UNCHANGED <<variant, wavelengths, wavesize, nspec, full_output, err, ndiag,
                   psf_lo, psf_hi, pending, iwave, flux, ivar, Rd, pixmask_fraction,
                   chi2pix, modelimage, psferr, writers, psfcalls, returned, wdisp18,
                   spotsize,
                   splitVars, patchVars, solveVars,
                   eigenVars, diagVars>>

NextNdiag ==
    \/ Ex2dNdiagLoop
    \/ Ex2dNdiagClamp
    \/ Ex2dAllocRd

SpecNdiag == InitNdiag /\ [][NextNdiag]_vars

(***************************************************************************)
(* resolution_from_icov and the resolution half of ex2d_patch (of both     *)
(* files, from the eigendecomposition of iCov on).                         *)
(*                                                                         *)
(* Matrices are sequences of rows with integer entries; the inputs are the *)
(* symmetric positive definite 2x2 matrices on which every step is exact.  *)
(* Their eigenvalues lie far above the floor of eigen_compose              *)
(* (10*epsilon*max), so eigen_compose recomposes the exact inverse and     *)
(* square root.  A rational is a pair <<numerator, denominator>>; a        *)
(* denominator 0 stands for the non-finite result of a division by zero.   *)
(***************************************************************************)
RECURSIVE GCD(_, _)
GCD(a, b) == IF b = 0 THEN a ELSE GCD(b, a % b)

QNorm(p) ==
    IF p[1] = 0 THEN <<0, 1>>
    ELSE LET g == GCD(IF p[1] < 0 THEN -p[1] ELSE p[1], p[2])
         IN  <<p[1] \div g, p[2] \div g>>

QInt(a) == <<a, 1>>

QAdd(p, q) == QNorm(<<p[1] * q[2] + q[1] * p[2], p[2] * q[2]>>)

QMul(p, q) == QNorm(<<p[1] * q[1], p[2] * q[2]>>)

RECURSIVE QSum(_)
QSum(sq) == IF sq = <<>> THEN <<0, 1>> ELSE QAdd(Head(sq), QSum(Tail(sq)))

RECURSIVE SumSeq(_)
SumSeq(s) == IF s = <<>> THEN 0 ELSE Head(s) + SumSeq(Tail(s))

Sym2(a, b, d) == << <<a, b>>, <<b, d>> >>

MatMul(X, Y) ==
    [r \in 1..Len(X) |->
        [c \in 1..Len(Y[1]) |-> SumSeq([k \in 1..Len(Y) |-> X[r][k] * Y[k][c]])]]

Det2(M) == M[1][1] * M[2][2] - M[1][2] * M[2][1]

\* the symmetric positive definite 2x2 matrices with entries up to MaxQ
PosDef2 ==
    {M \in {Sym2(a, b, d) : a \in 1..MaxQ, d \in 1..MaxQ, b \in (-MaxQ)..MaxQ} :
        Det2(M) > 0}

\* v.dot(diag(sqrt(w)).dot(v.T)) for w, v = eigh(M): the positive
\* semidefinite square root of M
MatSqrt(M) ==
    CHOOSE Q \in PosDef2 : MatMul(Q, Q) = M

IsSquare(x) == \E r \in 0..x : r * r = x

\* the integer part of the square root (exact on the inputs of the model)
IntSqrt(x) == CHOOSE r \in 0..x : r * r <= x /\ (r + 1) * (r + 1) > x

\* eigen_compose(bw, bv, invert=True, sqr=True) for bw, bv = eigh(block),
\* block = inverse[offset:offset+b, offset:offset+b], inverse = M^-1:
\* the inverse square root of the diagonal block of the inverse of M.
\* For b = 1 the block is adj(M)[k][k] / det(M); for b = 2 it is M^-1.
BlockInvSqrt(M, offset, b) ==
    IF b = 2 THEN MatSqrt(M)
    ELSE << <<IntSqrt(Det2(M) \div M[2 - offset][2 - offset])>> >>

\* whether every block of the decorr = [1, 1] path is an integer
BlockExact(M) ==
    /\ Det2(M) > 0
    /\ \A k \in 1..2 : /\ Det2(M) % M[k][k] = 0
                       /\ IsSquare(Det2(M) \div M[k][k])

\* sqrt_icov[offset:offset+b, offset:offset+b] = ... for each b in decorr
RECURSIVE FillBlocks(_, _, _, _)
FillBlocks(S, M, blocks, offset) ==
    IF blocks = <<>> THEN S
    ELSE LET b == Head(blocks)
             B == BlockInvSqrt(M, offset, b)
             T == [r \in 1..Len(S) |-> [c \in 1..Len(S) |->
                      IF r \in (offset + 1)..(offset + b) /\ c \in (offset + 1)..(offset + b)
                      THEN B[r - offset][c - offset] ELSE S[r][c]]]
         IN  FillBlocks(T, M, Tail(blocks), offset + b)

\* mutant: the blocks are written into a copy of icov
ZerosLike_Copy(M) == M

\* np.zeros_like(icov)
ZerosLike(M) == [r \in 1..Len(M) |-> [c \in 1..Len(M[1]) |-> 0]]

\* mutant: the sum runs over axis 0 of the upper triangle
NormVector_Triangle(Q) ==
    [r \in 1..Len(Q) |-> SumSeq([c \in 1..Len(Q) |-> IF c >= r THEN Q[r][c] ELSE 0])]

\* norm_vector = np.sum(sqrt_icov, axis=1)
NormVector(Q) == [r \in 1..Len(Q) |-> SumSeq(Q[r])]

\* mutant: the outer product is taken the other way round
BuildR_ByColumn(Q, nv) ==
    [r \in 1..Len(Q) |-> [c \in 1..Len(Q) |-> <<Q[r][c], nv[c]>>]]

\* R = np.outer(norm_vector**(-1), np.ones(norm_vector.size)) * sqrt_icov
BuildR(Q, nv) ==
    [r \in 1..Len(Q) |-> [c \in 1..Len(Q) |-> <<Q[r][c], nv[r]>>]]

\* ivar = norm_vector**2 (resolution_from_icov)
NormSquared(nv) == [k \in 1..Len(nv) |-> nv[k] * nv[k]]

\* (norm_vector_gpu * 2) (ex2d_patch, ex2d_patch_gpu_matrix.py)
NormTimesTwo(nv) == [k \in 1..Len(nv) |-> nv[k] * 2]

\* v.reshape((nspec, nwave))
Reshape(v, shp) ==
    [s \in 1..shp[1] |-> [w \in 1..shp[2] |-> v[(s - 1) * shp[2] + w]]]

InitPatch ==
    /\ IdleEigen
    /\ IdleDiag
    /\ IdleSplit
    /\ IdleEx2d
    /\ IdleNdiag
    /\ IdleSolve
    /\ \/ /\ fn = "resolution_from_icov"
          /\ icov \in {MatMul(Q, Q) : Q \in PosDef2}
          /\ decorr \in {DecorrNone} \cup (DecorrLists \ {DecorrList(<<1, 1>>)})
          /\ shape = <<>>
          /\ ndecorr = FALSE
       \/ /\ fn = "resolution_from_icov"
          /\ icov \in {M \in {Sym2(a, b, d) : a \in 1..(2 * MaxQ * MaxQ),
                                              d \in 1..(2 * MaxQ * MaxQ),
                                              b \in (-2 * MaxQ * MaxQ)..(2 * MaxQ * MaxQ)} :
                          BlockExact(M)}
          /\ decorr = DecorrList(<<1, 1>>)
          /\ shape = <<>>
          /\ ndecorr = FALSE
       \/ /\ fn = "ex2d_patch"
          /\ icov \in {MatMul(Q, Q) : Q \in PosDef2}
          /\ decorr = DecorrNone
          /\ shape \in {<<1, 2>>, <<2, 1>>}
          /\ ndecorr \in BOOLEAN
       \/ /\ fn = "ex2d_patch_gpu"
          /\ icov \in {MatMul(Q, Q) : Q \in {P \in PosDef2 : \A r \in 1..2 : SumSeq(P[r]) > 0}}
          /\ decorr = DecorrNone
          /\ shape \in {<<1, 2>>, <<2, 1>>}
          /\ ndecorr = FALSE
    /\ ppc = "start"
    /\ perr = "none"
    /\ sqrt_icov = <<>>
    /\ norm_vector = <<>>
    /\ R = <<>>
    /\ patch_ivar = <<>>

\* mutant: the number of blocks is compared, not their sum
DecorrMismatch_Count(blocks, M) == Len(blocks) # Len(M)

\* np.sum(decorr) != icov.shape[0]
DecorrMismatch(blocks, M) == SumSeq(blocks) # Len(M)

\* resolution_from_icov: if decorr is not None and the sizes mismatch, raise
ResolutionFromIcovRaise ==
    /\ ppc = "start"
    /\ fn = "resolution_from_icov"
    /\ ~decorr.is_none
    /\ DecorrMismatch(decorr.blocks, icov)
    /\ ppc' = "raised"
    /\ perr' = "RuntimeError"
    /\ UNCHANGED <<fn, icov, decorr, shape, ndecorr, sqrt_icov, norm_vector, R, patch_ivar,
                   splitVars, ex2dVars, ndiagVars, solveVars,
                   eigenVars, diagVars>>

\* resolution_from_icov(icov, decorr) returning (R, ivar)
ResolutionFromIcov ==
    /\ ppc = "start"
    /\ fn = "resolution_from_icov"
    /\ decorr.is_none \/ ~DecorrMismatch(decorr.blocks, icov)
    /\ sqrt_icov' = IF ~decorr.is_none
                    THEN FillBlocks(ZerosLike(icov), icov, decorr.blocks, 0)
                    ELSE MatSqrt(icov)
    /\ norm_vector' = NormVector(sqrt_icov')
    /\ R' = BuildR(sqrt_icov', norm_vector')
    /\ patch_ivar' = NormSquared(norm_vector')
    /\ ppc' = "done"
    /\ UNCHANGED <<fn, icov, decorr, shape, ndecorr, perr, splitVars, ex2dVars, ndiagVars, solveVars,
                   eigenVars, diagVars>>

\* ex2d_patch of ex2d_patch_gpu_matrix.py from "u, v = eigh(iCov)" on:
\* Q, norm_vector, R and the returned ivar.  ndecorr is not read (it is
\* only copied to results['options']): Q is always the square root of the
\* whole matrix.
Ex2dPatchResolution ==
    /\ ppc = "start"
    /\ fn = "ex2d_patch"
    /\ sqrt_icov' = MatSqrt(icov)
    /\ norm_vector' = NormVector(sqrt_icov')
    /\ R' = BuildR(sqrt_icov', norm_vector')
    /\ patch_ivar' = Reshape(NormTimesTwo(norm_vector'), shape)
    /\ ppc' = "done"
    /\ UNCHANGED <<fn, icov, decorr, shape, ndecorr, perr, splitVars, ex2dVars, ndiagVars, solveVars,
                   eigenVars, diagVars>>

\* Cov = v.dot(spdiags(1/u).dot(v.T)) for u, v = eigh(iCov): the inverse
\* of iCov, rational entries
CovOf(M) ==
    << <<QNorm(<<M[2][2], Det2(M)>>), QNorm(<<0 - M[1][2], Det2(M)>>)>>,
       <<QNorm(<<0 - M[2][1], Det2(M)>>), QNorm(<<M[1][1], Det2(M)>>)>> >>

\* cp.diagonal(Cx), Cx = R.dot(Cov.dot(R.T))
DiagonalOfCx(Rm, C) ==
    [r \in 1..Len(Rm) |->
        QSum([k \in 1..(Len(Rm) * Len(Rm)) |->
            LET a == ((k - 1) \div Len(Rm)) + 1
                b == ((k - 1) % Len(Rm)) + 1
            IN  QMul(QMul(QNorm(Rm[r][a]), C[a][b]), QNorm(Rm[r][b]))])]

\* ex2d_patch of ex2d_patch_gpu.py from "u, v = eigh(iCov)" on: Q,
\* norm_vector, R, Cov, Cx and the value returned under 'ivar'
Ex2dPatchResolutionGpu ==
    /\ ppc = "start"
    /\ fn = "ex2d_patch_gpu"
    /\ sqrt_icov' = MatSqrt(icov)
    /\ norm_vector' = NormVector(sqrt_icov')
    /\ R' = BuildR(sqrt_icov', norm_vector')
    /\ patch_ivar' = Reshape(DiagonalOfCx(R', CovOf(icov)), shape)
    /\ ppc' = "done"
    /\ UNCHANGED <<fn, icov, decorr, shape, ndecorr, perr, splitVars, ex2dVars, ndiagVars,
                   solveVars, eigenVars, diagVars>>

NextPatch ==
    \/ ResolutionFromIcovRaise
    \/ ResolutionFromIcov
    \/ Ex2dPatchResolution
    \/ Ex2dPatchResolutionGpu

SpecPatch == InitPatch /\ [][NextPatch]_vars

(***************************************************************************)
(* ex2d calling ex2d_patch for one patch, up to the solve of the raw flux. *)
(*                                                                         *)
(* The patch has 2 pixels and 2 flux bins.  Entries that the               *)
(* regularization touches are rationals <<numerator, denominator>> in      *)
(* lowest terms.  The linear solver is a library routine: xflux records    *)
(* the solver and the system it is given.                                  *)
(***************************************************************************)
RECURSIVE MaxSeq(_)
MaxSeq(sq) == IF Len(sq) = 1 THEN sq[1] ELSE Max(Head(sq), MaxSeq(Tail(sq)))

\* fluxweight = W.dot(A).sum(axis=0).A[0]
FluxWeight(M, wts) ==
    [j \in 1..Len(M[1]) |-> SumSeq([r \in 1..Len(M) |-> wts[r] * M[r][j]])]

\* minweight = 1.e-4*np.max(fluxweight); ibad = fluxweight < minweight
Ibad(fw) == [j \in 1..Len(fw) |-> 10000 * fw[j] < MaxSeq(fw)]

\* mutant: the low-weight bins are left at regularize
IdiagOf_NoLowWeight(reg, fw) == [j \in 1..Len(fw) |-> QInt(reg)]

\* Idiag = regularize*np.ones(nspec*nwave); Idiag[ibad] = minweight - fluxweight[ibad]
IdiagOf(reg, fw) ==
    [j \in 1..Len(fw) |->
        IF Ibad(fw)[j] THEN QNorm(<<MaxSeq(fw) - 10000 * fw[j], 10000>>)
        ELSE QInt(reg)]

\* np.any(I.diagonal())
AnyNonzero(dg) == \E j \in 1..Len(dg) : dg[j][1] # 0

QMatrix(M) == [r \in 1..Len(M) |-> [c \in 1..Len(M[r]) |-> QInt(M[r][c])]]

\* scipy.sparse.vstack( (A, I) ), I the identity with its diagonal set to Idiag
StackIdentity(M, dg) ==
    QMatrix(M) \o [r \in 1..Len(dg) |->
                      [c \in 1..Len(dg) |-> IF r = c THEN dg[r] ELSE <<0, 1>>]]

\* np.concatenate( (v, value*np.ones(count)) )
Extend(v, value, count) == v \o [k \in 1..count |-> value]

\* Ax.T.dot(Wx.dot(Ax)), Wx the diagonal matrix of wts
NormalMatrix(M, wts) ==
    [j \in 1..Len(M[1]) |-> [k \in 1..Len(M[1]) |->
        QSum([r \in 1..Len(M) |-> QMul(QMul(M[r][j], QInt(wts[r])), M[r][k])])]]

\* Ax.T.dot(Wx.dot(pix))
NormalRhs(M, wts, v) ==
    [j \in 1..Len(M[1]) |->
        QSum([r \in 1..Len(M) |-> QMul(M[r][j], QInt(wts[r] * v[r]))])]

InitSolve ==
    /\ IdleEigen
    /\ IdleDiag
    /\ IdleSplit
    /\ IdlePatch
    /\ IdleNdiag
    /\ variant \in {"gpu", "matrix"}
    /\ wavelengths = <<>>
    /\ wavesize = 0
    /\ nspec = 0
    /\ full_output = FALSE
    /\ pc = "idle"
    /\ err = "none"
    /\ ndiag = 0
    /\ psf_lo = 0
    /\ psf_hi = 0
    /\ pending = {}
    /\ iwave = 0
    /\ flux = <<>>
    /\ ivar = <<>>
    /\ Rd = <<>>
    /\ pixmask_fraction = <<>>
    /\ chi2pix = <<>>
    /\ modelimage = <<>>
    /\ psferr = PsferrNone
    /\ writers = <<>>
    /\ psfcalls = 0
    /\ returned = <<>>
    /\ regularize \in 0..MaxRegularize
    /\ A \in {<< <<a, b>>, <<c, d>> >> : a \in 0..1, b \in 0..1, c \in 0..1, d \in 0..1}
    /\ image = <<1, 2>>
    /\ pixivar \in {<<u, v>> : u \in {0, 1, 20000}, v \in {0, 1, 20000}}
    /\ spos = "call"
    /\ regularize_patch = 0
    /\ fluxweight = <<>>
    /\ Idiag = <<>>
    /\ Ax = <<>>
    /\ wx = <<>>
    /\ pix = <<>>
    /\ iCov = <<>>
    /\ y = <<>>
    /\ xflux = <<>>

\* results = ex2d_patch(...): ex2d_patch_gpu_matrix.py passes
\* regularize=regularize; ex2d_patch_gpu.py passes no regularize, and its
\* ex2d_patch never reads its parameter regularize (default 0.0)
Ex2dCallPatch ==
    /\ spos = "call"
    /\ regularize_patch' = IF variant = "matrix" THEN regularize ELSE 0
    /\ spos' = "regularize"
    /\ UNCHANGED <<regularize, A, image, pixivar, fluxweight, Idiag, Ax, wx, pix, iCov,
                   y, xflux, splitVars, ex2dVars, patchVars, ndiagVars,
                   eigenVars, diagVars>>

\* ex2d_patch of ex2d_patch_gpu_matrix.py: extend A with the regularization term
PatchRegularize ==
    /\ spos = "regularize"
    /\ variant = "matrix"
    /\ fluxweight' = FluxWeight(A, pixivar)
    /\ Idiag' = IdiagOf(regularize_patch, fluxweight')
    /\ IF AnyNonzero(Idiag')
       THEN /\ pix' = Extend(image, 0, Len(A[1]))
            /\ Ax' = StackIdentity(A, Idiag')
            /\ wx' = Extend(pixivar, 1, Len(A[1]))
       ELSE /\ pix' = image
            /\ Ax' = QMatrix(A)
            /\ wx' = pixivar
    /\ spos' = "solve"
    /\ UNCHANGED <<regularize, A, image, pixivar, regularize_patch, iCov, y, xflux,
                   splitVars, ex2dVars, patchVars, ndiagVars,
                   eigenVars, diagVars>>

\* ex2d_patch of ex2d_patch_gpu.py: W, A and the image are used as they are
PatchNoRegularize ==
    /\ spos = "regularize"
    /\ variant = "gpu"
    /\ pix' = image
    /\ Ax' = QMatrix(A)
    /\ wx' = pixivar
    /\ spos' = "solve"
    /\ UNCHANGED <<regularize, A, image, pixivar, regularize_patch, fluxweight, Idiag,
                   iCov, y, xflux, splitVars, ex2dVars, patchVars, ndiagVars,
                   eigenVars, diagVars>>

\* iCov, y and the solve: cp.linalg.solve (matrix) or lsqr (gpu)
PatchSolve ==
    /\ spos = "solve"
    /\ iCov' = NormalMatrix(Ax, wx)
    /\ y' = NormalRhs(Ax, wx, pix)
    /\ xflux' = [solver |-> IF variant = "matrix" THEN "solve" ELSE "lsqr",
                 lhs |-> iCov', rhs |-> y']
    /\ spos' = "solved"
    /\ UNCHANGED <<regularize, A, image, pixivar, regularize_patch, fluxweight, Idiag,
                   Ax, wx, pix, splitVars, ex2dVars, patchVars, ndiagVars,
                   eigenVars, diagVars>>

NextSolve ==
    \/ Ex2dCallPatch
    \/ PatchRegularize
    \/ PatchNoRegularize
    \/ PatchSolve

SpecSolve == InitSolve /\ [][NextSolve]_vars

(***************************************************************************)
(* eigen_compose (the same text in both files) on its eigenvalues; the     *)
(* eigenvectors v are not changed by it.  A float is written as            *)
(* 10^t * 2^(e/8): the arguments are powers of two (t = 0), and the        *)
(* threshold 10*epsilon is 10^1 * 2^(-52).                                 *)
(***************************************************************************)
FVal(e) == [t |-> 0, e |-> e]

FMul(p, q) == [t |-> p.t + q.t, e |-> p.e + q.e]

\* 1.0 / p
FInv(p) == [t |-> 0 - p.t, e |-> 0 - p.e]

\* np.sqrt(p), exact for the even exponents of the model
FSqrt(p) == [t |-> p.t \div 2, e |-> p.e \div 2]

\* floor(k * 8 * log2(10)) for 0 <= k <= 6; 8*log2(10) = 26.5754...
Log2Ten8Floor(k) == (k * 26575) \div 1000

\* p > q: 10^(p.t - q.t) * 2^((p.e - q.e)/8) > 1
FGt(p, q) ==
    LET d == p.t - q.t
        l == p.e - q.e
    IN  IF d = 0 THEN l > 0
        ELSE IF d > 0 THEN l >= 0 - Log2Ten8Floor(d)
        ELSE l >= Log2Ten8Floor(0 - d) + 1

\* threshold = 10.0 * sys.float_info.epsilon, epsilon = 2^-52
threshold == [t |-> 1, e |-> 0 - 8 * 52]

\* np.max(w)
RECURSIVE FMaxFrom(_, _)
FMaxFrom(ws, k) ==
    IF k = 1 THEN ws[1]
    ELSE LET m == FMaxFrom(ws, k - 1)
         IN  IF FGt(ws[k], m) THEN ws[k] ELSE m

FMax(ws) == FMaxFrom(ws, Len(ws))

\* minval = np.sqrt(maxval) * threshold  or  maxval * threshold
Minval(maxval, root) == FMul(IF root THEN FSqrt(maxval) ELSE maxval, threshold)

\* wscaled of eigen_compose(w, v, invert, sqr)
EigenScale(ws, inv, root) ==
    LET maxval == FMax(ws)
        minval == Minval(maxval, root)
    IN  IF inv
        THEN IF root
             THEN [k \in 1..Len(ws) |->
                      IF FGt(FSqrt(ws[k]), minval) THEN FInv(FSqrt(ws[k]))
                      ELSE FInv(minval)]
             ELSE [k \in 1..Len(ws) |->
                      IF FGt(ws[k], minval) THEN FInv(ws[k]) ELSE FInv(minval)]
        ELSE IF root
             THEN [k \in 1..Len(ws) |->
                      IF FGt(ws[k], minval) THEN FSqrt(ws[k]) ELSE minval]
             ELSE [k \in 1..Len(ws) |->
                      IF FGt(ws[k], minval) THEN ws[k] ELSE minval]

\* the calls of the model, in order: (invert, sqr)
EigenCalls == << <<FALSE, FALSE>>, <<FALSE, TRUE>>, <<TRUE, FALSE>>, <<TRUE, TRUE>> >>

\* the exponents (in eighths) of the eigenvalues of the model: 2^0 .. 2^(-2*MaxExp)
EigenExps == {0 - 16 * k : k \in 0..MaxExp}

InitEigen ==
    /\ IdleSplit
    /\ IdleEx2d
    /\ IdlePatch
    /\ IdleNdiag
    /\ IdleSolve
    /\ IdleDiag
    /\ eigw \in {<<FVal(a), FVal(b)>> : a \in EigenExps, b \in EigenExps}
    /\ invert = FALSE
    /\ sqr = FALSE
    /\ wscaled = <<>>
    /\ epos = 0

\* eigen_compose(w, v, invert, sqr), once per combination of the flags
EigenCompose ==
    /\ epos < Len(EigenCalls)
    /\ invert' = EigenCalls[epos + 1][1]
    /\ sqr' = EigenCalls[epos + 1][2]
    /\ wscaled' = Append(wscaled, EigenScale(eigw, invert', sqr'))
    /\ epos' = epos + 1
    /\ UNCHANGED <<eigw, splitVars, ex2dVars, patchVars, ndiagVars, solveVars, diagVars>>

\* eigen_compose(w2, v, invert=True), w2 the eigenvalues of
\* eigen_compose(w, v, invert=True)
EigenComposeAgain ==
    /\ epos = Len(EigenCalls)
    /\ invert' = TRUE
    /\ sqr' = FALSE
    /\ wscaled' = Append(wscaled, EigenScale(wscaled[3], TRUE, FALSE))
    /\ epos' = epos + 1
    /\ UNCHANGED <<eigw, splitVars, ex2dVars, patchVars, ndiagVars, solveVars, diagVars>>

NextEigen ==
    \/ EigenCompose
    \/ EigenComposeAgain

SpecEigen == InitEigen /\ [][NextEigen]_vars

(***************************************************************************)
(* ex2d, full_output: the chi2pix diagnostic of one patch (the same text   *)
(* in both files).  Pixel values are integers, weights are rationals, and  *)
(* the result of a floating-point division is a number, inf or nan.        *)
(***************************************************************************)
FloatNum(q) == [kind |-> "num", q |-> q]

\* a / b in floating point, a rational and b an integer
FloatDiv(a, b) ==
    IF b # 0 THEN FloatNum(QNorm(IF b > 0 THEN <<a[1], a[2] * b>> ELSE <<0 - a[1], a[2] * (0 - b)>>))
    ELSE IF a[1] = 0 THEN [kind |-> "nan", q |-> <<0, 1>>]
    ELSE [kind |-> "inf", q |-> <<0, 1>>]

\* modelivar = (submodel*psferr + 1e-32)**-2 is positive for every pixel, so
\* ii = (modelivar > 0) & (subivar > 0) is subivar > 0;
\* totpix_ivar[ii] = 1.0 / (1.0/modelivar[ii] + 1.0/subivar[ii]), 0 elsewhere
\* (1e-32 is lost in the sum unless submodel*psferr is 0, and then
\* 1/modelivar = 1e-64 is lost against 1/subivar)
TotpixIvar(model, perr_value, pixw) ==
    [k \in 1..Len(model) |->
        IF pixw[k] > 0
        THEN QNorm(<<pixw[k], pixw[k] * (model[k] * perr_value) * (model[k] * perr_value) + 1>>)
        ELSE <<0, 1>>]

\* psfweight = A.T.dot(totpix_ivar.ravel()>0)
PsfWeight(M, tot) ==
    [j \in 1..Len(M[1]) |->
        SumSeq([k \in 1..Len(M) |-> IF tot[k][1] > 0 THEN M[k][j] ELSE 0])]

\* chi.ravel()**2, chi = (subimg - submodel) * np.sqrt(totpix_ivar)
ChiSquared(img, model, tot) ==
    [k \in 1..Len(img) |->
        QMul(QInt((img[k] - model[k]) * (img[k] - model[k])), tot[k])]

\* mutant: the divisor is psfweight alone
Chi2Divisor_NoBad(weight) == weight

\* psfweight + bad, bad = (psfweight == 0.0)
Chi2Divisor(weight) == weight + (IF weight = 0 THEN 1 ELSE 0)

\* chi2x = (A.T.dot(chi.ravel()**2) * ~bad) / (psfweight + bad)
Chi2x(M, chisq, weights) ==
    [j \in 1..Len(M[1]) |->
        FloatDiv(QMul(QSum([k \in 1..Len(M) |-> QMul(QInt(M[k][j]), chisq[k])]),
                      QInt(IF weights[j] = 0 THEN 0 ELSE 1)),
                 Chi2Divisor(weights[j]))]

\* the pixel values of the model: 0..MaxCounts
PixelVectors == {<<a, b>> : a \in 0..MaxCounts, b \in 0..MaxCounts}

InitDiag ==
    /\ IdleSplit
    /\ IdlePatch
    /\ IdleNdiag
    /\ IdleEigen
    /\ variant \in {"gpu", "matrix"}
    /\ wavelengths = <<>>
    /\ wavesize = 0
    /\ nspec = 0
    /\ full_output = TRUE
    /\ pc = "idle"
    /\ err = "none"
    /\ ndiag = 0
    /\ psf_lo = 0
    /\ psf_hi = 0
    /\ pending = {}
    /\ iwave = 0
    /\ flux = <<>>
    /\ ivar = <<>>
    /\ Rd = <<>>
    /\ pixmask_fraction = <<>>
    /\ chi2pix = <<>>
    /\ modelimage = <<>>
    /\ psferr \in {PsferrOf(0), PsferrOf(PsfPsferr)}
    /\ writers = <<>>
    /\ psfcalls = 0
    /\ returned = <<>>
    /\ regularize = 0
    /\ A \in {<< <<a, b>>, <<c, d>> >> : a \in 0..1, b \in 0..1, c \in 0..1, d \in 0..1}
    /\ image = <<>>
    /\ pixivar = <<>>
    /\ spos = "idle"
    /\ regularize_patch = 0
    /\ fluxweight = <<>>
    /\ Idiag = <<>>
    /\ Ax = <<>>
    /\ wx = <<>>
    /\ pix = <<>>
    /\ iCov = <<>>
    /\ y = <<>>
    /\ xflux = <<>>
    /\ submodel \in PixelVectors
    /\ subimg \in PixelVectors
    /\ subivar \in PixelVectors
    /\ totpix_ivar = <<>>
    /\ psfweight = <<>>
    /\ chi2x = <<>>
    /\ dpos = "weights"

\* the pixel weights and the weight of each flux bin
Ex2dPixelWeights ==
    /\ dpos = "weights"
    /\ totpix_ivar' = TotpixIvar(submodel, psferr.value, subivar)
    /\ psfweight' = PsfWeight(A, totpix_ivar')
    /\ dpos' = "chi2"
    /\ UNCHANGED <<submodel, subimg, subivar, chi2x, splitVars, ex2dVars, patchVars,
                   ndiagVars, solveVars, eigenVars>>

\* the chi2 of the pixels that contribute to each flux bin
Ex2dChi2 ==
    /\ dpos = "chi2"
    /\ chi2x' = Chi2x(A, ChiSquared(subimg, submodel, totpix_ivar), psfweight)
    /\ dpos' = "done"
    /\ UNCHANGED <<submodel, subimg, subivar, totpix_ivar, psfweight, splitVars,
                   ex2dVars, patchVars, ndiagVars, solveVars, eigenVars>>

NextDiag ==
    \/ Ex2dPixelWeights
    \/ Ex2dChi2

SpecDiag == InitDiag /\ [][NextDiag]_vars

(***************************************************************************)
(* Claims about ex2d (checked under Spec and SpecWorkers).                 *)
(***************************************************************************)

\* the arrays the ascending loop leaves, from arrs, for the patches todo
RECURSIVE SequentialLoop(_, _)
SequentialLoop(arrs, todo) ==
    IF todo = {} THEN arrs
    ELSE LET p == CHOOSE p \in todo : \A q \in todo : p <= q
         IN  SequentialLoop(ApplyPatch(arrs, p), todo \ {p})

SequentialArrays ==
    SequentialLoop([flux |-> Zeros, ivar |-> Zeros, Rd |-> Zeros,
                    pixmask_fraction |-> Zeros, chi2pix |-> Zeros,
                    modelimage |-> <<>>], PatchStarts)

\* C1: over the whole patch loop every column of flux and ivar is assigned
\* by at most one patch (the column ranges of two patches are disjoint).
C1_ColumnsAssignedByOnePatch ==
    \A k \in DOMAIN writers : Cardinality(writers[k]) <= 1

\* C2: with the patches run by workers in any order, the returned flux, ivar
\* and Rd are those of the sequential ascending loop.
C2_WorkersMatchSequentialLoop ==
    pc = "done" =>
        /\ flux = DivideByDwave(SequentialArrays.flux)
        /\ ivar = TimesDwaveSquared(SequentialArrays.ivar)
        /\ Rd = SequentialArrays.Rd

\* C3: whether full_output is True or False, the returned Rd holds the
\* (2*ndiag+1)-entry band for every core wavelength bin of every patch.
C3_RdFilledForEveryCoreBin ==
    pc = "done" =>
        \A k \in 0..(Nwave - 1) :
            /\ Rd[k].kind = "R"
            /\ Len(Rd[k].rows) = 2 * ndiag + 1

RatEq(p, q) == p[1] * q[2] = q[1] * p[2]

RatMul(p, q) == <<p[1] * q[1], p[2] * q[2]>>

\* dwave = np.gradient(wavelengths) at column k, as a rational
DwaveAt(k) ==
    IF k = 0 THEN <<wavelengths[2] - wavelengths[1], 1>>
    ELSE IF k = Len(wavelengths) - 1
         THEN <<wavelengths[k + 1] - wavelengths[k], 1>>
         ELSE <<wavelengths[k + 2] - wavelengths[k], 2>>

RatInv(x) == <<x[2], x[1]>>

\* two cells hold the same quantity, up to the unit factor
SameQuantity(a, b) ==
    a.kind = b.kind /\ a.patch = b.patch /\ a.col = b.col /\ a.rows = b.rows

\* the step of ex2d that converts the units and returns
IsReturnStep == pc = "loop" /\ pc' = "done"

\* C16: for all bins, the per-bin flux accumulated by the patch loop equals
\* the returned flux times dwave, and the returned ivar equals the per-bin
\* ivar accumulated by the patch loop divided by dwave squared.
C16_IvarDividedByDwaveSquared ==
    [][IsReturnStep =>
        \A k \in 0..(Len(wavelengths) - 1) :
            /\ SameQuantity(flux[k], flux'[k])
            /\ RatEq(flux[k].scale, RatMul(flux'[k].scale, DwaveAt(k)))
            /\ SameQuantity(ivar[k], ivar'[k])
            /\ ivar[k].kind # "zero" =>
                  RatEq(ivar'[k].scale,
                        RatMul(ivar[k].scale, RatInv(RatMul(DwaveAt(k), DwaveAt(k)))))]_vars

\* C16 as amended: the per-bin flux equals the returned flux times dwave,
\* and the returned ivar equals the per-bin ivar multiplied by dwave squared.
C16_IvarTimesDwaveSquared ==
    [][IsReturnStep =>
        \A k \in 0..(Len(wavelengths) - 1) :
            /\ SameQuantity(flux[k], flux'[k])
            /\ RatEq(flux[k].scale, RatMul(flux'[k].scale, DwaveAt(k)))
            /\ SameQuantity(ivar[k], ivar'[k])
            /\ RatEq(ivar'[k].scale,
                     RatMul(ivar[k].scale, RatMul(DwaveAt(k), DwaveAt(k))))]_vars

\* ex2d has returned arrays filled by the patches on a grid of step 2
C16_Witness ==
    /\ pc = "done"
    /\ wavelengths[2] - wavelengths[1] = 2
    /\ Len(wavelengths) >= 3
    /\ \A k \in 0..(Len(wavelengths) - 1) :
          /\ flux[k].kind = "flux"
          /\ ivar[k].kind = "ivar"
          /\ ivar[k].scale = <<16, 4>>

\* the largest element of a non-empty set of integers
SetMax(S) == CHOOSE m \in S : \A k \in S : k <= m

\* the rounded 9-sigma widths at the 3 sampled spectra and 3 sampled wavelengths
SampledWidths ==
    {RoundHalfEven(wdisp18[ispec + 1][k], 2 * (wavelengths[2] - wavelengths[1])) :
        ispec \in {0, nspec \div 2, nspec - 1}, k \in 1..3}

\* C15: the ndiag used by ex2d is min(max over the sampled spectra and
\* wavelengths of round(9*wdisp/dw), spot_height//2, spot_width//2), so it
\* never exceeds half the spot height or width, and Rd is allocated with
\* exactly 2*ndiag+1 band rows.
C15_NdiagIsClampedMax ==
    /\ pc \in {"alloc", "planned"} =>
          /\ ndiag = Min(SetMax(SampledWidths),
                         Min(spotsize[1] \div 2, spotsize[2] \div 2))
          /\ ndiag <= spotsize[1] \div 2
          /\ ndiag <= spotsize[2] \div 2
    /\ pc = "planned" =>
          /\ Len(Rd_shape) = 3
          /\ Rd_shape[2] = 2 * ndiag + 1

\* Rd has been allocated for a PSF whose widest sampled width, found only at
\* the middle spectrum, is cut down by a spot narrower than it is high
C15_Witness ==
    /\ pc = "planned"
    /\ nspec = 3
    /\ spotsize[2] < spotsize[1]
    /\ ndiag = spotsize[2] \div 2
    /\ ndiag >= 1
    /\ SetMax(SampledWidths) > ndiag
    /\ \A k \in 1..3 : wdisp18[2][k] > wdisp18[1][k] /\ wdisp18[2][k] > wdisp18[3][k]

\* no cell of the array holds a quantity computed from psferr
FreeOfPsferr(arr) == \A k \in DOMAIN arr : arr[k].psferr = 0

LoopFinished == pc = "done" \/ (pc = "loop" /\ pending = {})

\* the columns of flux and ivar that patch p assigned
ColumnsAssignedBy(p) == {k \in DOMAIN writers : p \in writers[k]}

\* C22: when the patch loop finishes, every column of flux and ivar has been
\* assigned by at least one patch, and each patch assigned as many columns
\* as it has core bins
C22_NoGapsAndCoreBinsCopied ==
    LoopFinished =>
        /\ \A k \in 0..(Nwave - 1) : writers[k] # {}
        /\ \A p \in PatchStarts :
              Cardinality(ColumnsAssignedBy(p)) = Len(CoreCols(p))

\* a finished loop of several patches whose last patch is shorter
C22_Witness ==
    /\ LoopFinished
    /\ Cardinality(PatchStarts) > 1
    /\ (Nwave - 1) % wavesize # 0
    /\ \E p \in PatchStarts : Len(CoreCols(p)) < wavesize + 1

\* an iteration of the patch loop has run (the plan makes 10 PSF calls)
PatchAttempted == pc \in {"loop", "raised", "done"} /\ psfcalls > 10

\* C23: for every patch, nhi = 0 included, the patch-local columns copied
\* are exactly the indices j with nlo <= j < nw - nhi
C23_CoreColumnsCopied ==
    (PatchAttempted /\ nspec = KeepLen) =>
        /\ SeqToSet(SrcCols(iwave)) = {j \in 0..(Nw(iwave) - 1) : Nlo <= j /\ j < Nw(iwave) - Nhi}
        /\ err # "ValueError"

\* C24: nlo >= ndiag and nhi >= ndiag, so for every core index j of every
\* patch the band rows j-ndiag..j+ndiag lie inside [0, nw), there are
\* 2*ndiag+1 of them, and the destination column lies inside [0, nwave)
C24_BandSliceInBounds ==
    pc = "loop" =>
        /\ Nlo >= ndiag
        /\ Nhi >= ndiag
        /\ \A p \in PatchStarts : \A c \in 1..Len(CoreCols(p)) :
              LET j == CoreCols(p)[c]
              IN  /\ j - ndiag >= 0
                  /\ j + ndiag < Nw(p)
                  /\ BandRows(p, j) = Arange(j - ndiag, j + ndiag + 1)
                  /\ Len(BandRows(p, j)) = 2 * ndiag + 1
                  /\ p + j - Nlo >= 0
                  /\ p + j - Nlo < Nwave

\* a patch whose borders come from ndiag has filled its columns of Rd with
\* bands of 3 rows
C24_Witness ==
    /\ pc = "loop"
    /\ PatchAttempted
    /\ ndiag = 1
    /\ psf_lo < ndiag
    /\ psf_hi < ndiag
    /\ Len(Rd[iwave].rows) = 3

\* C28: for every nspec >= 1 the keep mask has one entry per spectrum, so
\* the rows of every patch are written and no indexing error occurs
C28_KeepMaskFitsNspec ==
    PatchAttempted => err # "IndexError"

(***************************************************************************)
(* Claims about ex2d_patch and resolution_from_icov (under SpecPatch).     *)
(***************************************************************************)
RatAdd(p, q) == <<p[1] * q[2] + q[1] * p[2], p[2] * q[2]>>

RECURSIVE RatSum(_)
RatSum(s) == IF s = <<>> THEN <<0, 1>> ELSE RatAdd(Head(s), RatSum(Tail(s)))

RatIsOne(x) == x[2] # 0 /\ x[1] = x[2]

\* C4: the ivar returned by ex2d_patch is n squared per bin, n the
\* normalization vector, reshaped to [nspec, nwave].
C4_PatchIvarIsNormSquared ==
    (ppc = "done" /\ fn = "ex2d_patch") =>
        \A s \in 1..shape[1], w \in 1..shape[2] :
            patch_ivar[s][w] = norm_vector[(s - 1) * shape[2] + w]
                                 * norm_vector[(s - 1) * shape[2] + w]

\* C5: when the normalization vector has no zero entry, every row of the
\* resolution matrix built by resolution_from_icov (with or without decorr)
\* and by ex2d_patch sums to 1.
C5_ResolutionRowsSumToOne ==
    (ppc = "done" /\ \A k \in 1..Len(norm_vector) : norm_vector[k] # 0) =>
        \A r \in 1..Len(R) : RatIsOne(RatSum(R[r]))

\* a resolution matrix with a negative off-diagonal entry has been built
\* from a matrix whose normalization vector has no zero entry
C5_Witness ==
    /\ ppc = "done"
    /\ \A k \in 1..Len(norm_vector) : norm_vector[k] # 0
    /\ Len(R) = 2
    /\ R[1][2][1] < 0
    /\ norm_vector[1] # norm_vector[2]

\* C14: resolution_from_icov with a decorr list whose block sizes do not sum
\* to the matrix dimension raises an error and returns no (R, ivar); when
\* they sum to the dimension no error is raised.
C14_DecorrSizesChecked ==
    (fn = "resolution_from_icov" /\ ~decorr.is_none) =>
        IF SumSeq(decorr.blocks) # Len(icov)
        THEN /\ ppc \in {"start", "raised"}
             /\ ppc = "raised" => perr = "RuntimeError"
             /\ ppc = "start" => ENABLED ResolutionFromIcovRaise
             /\ R = <<>>
             /\ patch_ivar = <<>>
        ELSE /\ ppc \in {"start", "done"}
             /\ perr = "none"
             /\ ppc = "done" => (R # <<>> /\ patch_ivar # <<>>)

\* resolution_from_icov has raised for two blocks whose sizes sum to 3
C14_Witness ==
    /\ fn = "resolution_from_icov"
    /\ decorr = DecorrList(<<1, 2>>)
    /\ Len(icov) = 2
    /\ ppc = "raised"
    /\ perr = "RuntimeError"

\* the spectrum (1-based) that flux bin k of ex2d_patch belongs to
SpectrumOf(k) == ((k - 1) \div shape[2]) + 1

\* iCov couples flux bins of different spectra
HasCrossSpectrumEntries ==
    \E j \in 1..Len(icov), k \in 1..Len(icov) :
        SpectrumOf(j) # SpectrumOf(k) /\ icov[j][k] # 0

\* C19: with ndecorr True ex2d_patch builds the resolution matrix in
\* block-decorrelation mode: Q is rebuilt block by block, one diagonal block
\* per spectrum, so Q has no entry between two spectra and, whenever iCov
\* has nonzero cross-spectrum entries, R differs from the whole-matrix R
\* that ndecorr False gives.
C19_NdecorrBuildsBlockResolution ==
    (fn = "ex2d_patch" /\ ppc = "done" /\ ndecorr) =>
        /\ \A j \in 1..Len(sqrt_icov), k \in 1..Len(sqrt_icov) :
              SpectrumOf(j) # SpectrumOf(k) => sqrt_icov[j][k] = 0
        /\ HasCrossSpectrumEntries =>
              R # BuildR(MatSqrt(icov), NormVector(MatSqrt(icov)))

\* the number of the block of decorr that holds row k
RECURSIVE BlockOf(_, _)
BlockOf(k, blocks) ==
    IF k <= Head(blocks) THEN 1 ELSE 1 + BlockOf(k - Head(blocks), Tail(blocks))

\* the rows in the block of row k
OwnBlock(k) == {c \in 1..Len(icov) : BlockOf(c, decorr.blocks) = BlockOf(k, decorr.blocks)}

\* C29: in resolution_from_icov with a valid decorr list, sqrt_icov and R
\* are zero outside the diagonal blocks, so the normalization and the ivar
\* of a row are sums over the row's own block
C29_ResolutionIsBlockDiagonal ==
    (fn = "resolution_from_icov" /\ ppc = "done" /\ ~decorr.is_none) =>
        \A r \in 1..Len(R) :
            /\ \A c \in 1..Len(R) :
                  c \notin OwnBlock(r) => (sqrt_icov[r][c] = 0 /\ R[r][c][1] = 0)
            /\ norm_vector[r] =
                  SumSeq([c \in 1..Len(R) |-> IF c \in OwnBlock(r) THEN sqrt_icov[r][c] ELSE 0])
            /\ patch_ivar[r] = norm_vector[r] * norm_vector[r]

\* decorr = [1, 1] on an inverse covariance with correlated bins
C29_Witness ==
    /\ fn = "resolution_from_icov"
    /\ ppc = "done"
    /\ decorr = DecorrList(<<1, 1>>)
    /\ icov[1][2] # 0
    /\ R[1][1][1] # 0
    /\ R[1][2][1] = 0

\* C30: in ex2d_patch of ex2d_patch_gpu.py the value returned under 'ivar'
\* is the inverse variance of the decorrelated flux: the reciprocal of the
\* diagonal element of R C^-1 R^T, C^-1 the inverse of iCov
C30_GpuIvarIsInverseVariance ==
    (fn = "ex2d_patch_gpu" /\ ppc = "done") =>
        \A s \in 1..shape[1] : \A w \in 1..shape[2] :
            QMul(patch_ivar[s][w],
                 DiagonalOfCx(R, CovOf(icov))[(s - 1) * shape[2] + w]) = <<1, 1>>

(***************************************************************************)
(* Claims about the system solved for a patch (checked under SpecSolve).   *)
(***************************************************************************)

\* column sums of W A, from the inputs
PlainFluxWeight(j) == SumSeq([r \in 1..Len(A) |-> pixivar[r] * A[r][j]])

\* some flux bin has fluxweight < 1e-4 * max(fluxweight)
SomeBinFlagged ==
    \E b \in 1..Len(A[1]), j \in 1..Len(A[1]) :
        10000 * PlainFluxWeight(b) < PlainFluxWeight(j)

\* the plain normal equations (A^T W A) x = A^T W pix, from the inputs
PlainNormalMatrix ==
    [j \in 1..Len(A[1]) |-> [k \in 1..Len(A[1]) |->
        <<SumSeq([r \in 1..Len(A) |-> A[r][j] * pixivar[r] * A[r][k]]), 1>>]]

PlainNormalRhs ==
    [j \in 1..Len(A[1]) |->
        <<SumSeq([r \in 1..Len(A) |-> A[r][j] * pixivar[r] * image[r]]), 1>>]

\* the system is the plain one: Ax = A, wx = ivar, pix = image
NotAugmented ==
    /\ Len(Ax) = Len(A)
    /\ \A r \in 1..Len(A) : \A c \in 1..Len(A[1]) : Ax[r][c] = <<A[r][c], 1>>
    /\ wx = pixivar
    /\ pix = image

\* the system is extended by the block I: one row, one weight 1 and one
\* pixel 0 per flux bin
Augmented ==
    /\ Len(Ax) = Len(A) + Len(A[1])
    /\ Len(wx) = Len(Ax)
    /\ Len(pix) = Len(Ax)
    /\ \A r \in 1..Len(A) :
          /\ \A c \in 1..Len(A[1]) : Ax[r][c] = <<A[r][c], 1>>
          /\ wx[r] = pixivar[r]
          /\ pix[r] = image[r]
    /\ \A b \in 1..Len(A[1]) :
          /\ \A c \in 1..Len(A[1]) : c # b => Ax[Len(A) + b][c][1] = 0
          /\ Ax[Len(A) + b][b] = Idiag[b]
          /\ wx[Len(A) + b] = 1
          /\ pix[Len(A) + b] = 0

\* C17: in ex2d_patch (ex2d_patch_gpu_matrix.py), with regularize = 0 and
\* no flux bin below 1e-4*max(fluxweight), the regularization diagonal is
\* all zero, the system is not augmented and the raw flux is the solution
\* of the plain normal equations; the system is augmented with the identity
\* block exactly when regularize # 0 or some bin is flagged.
C17_PlainSolveWithoutRegularization ==
    (variant = "matrix" /\ spos \in {"solve", "solved"}) =>
        /\ (regularize_patch = 0 /\ ~SomeBinFlagged) =>
              /\ \A j \in 1..Len(Idiag) : Idiag[j][1] = 0
              /\ NotAugmented
              /\ spos = "solved" =>
                    /\ xflux.lhs = PlainNormalMatrix
                    /\ xflux.rhs = PlainNormalRhs
        /\ Augmented <=> (regularize_patch # 0 \/ SomeBinFlagged)
        /\ Augmented \/ NotAugmented

\* ex2d_patch has solved the plain system of a patch whose two bins share a
\* pixel, with unequal pixel weights and no bin flagged
C17_Witness ==
    /\ variant = "matrix"
    /\ spos = "solved"
    /\ regularize_patch = 0
    /\ ~SomeBinFlagged
    /\ pixivar = <<20000, 1>>
    /\ A[1] = <<1, 1>>
    /\ xflux.lhs[1][2][1] # 0
    /\ Len(Ax) = 2

\* C18: the regularize passed to ex2d is the strength the solve of the
\* patch works with: with a positive regularize the system is the augmented
\* one, with regularize on the diagonal for every bin that is not flagged,
\* and differs from the plain system that regularize = 0 gives.
C18_RegularizeReachesTheSolve ==
    spos \in {"solve", "solved"} =>
        /\ regularize_patch = regularize
        /\ regularize > 0 =>
              /\ Augmented
              /\ \E j \in 1..Len(Idiag) : Idiag[j] = <<regularize, 1>>
              /\ spos = "solved" => xflux.lhs # PlainNormalMatrix

\* C26: in ex2d_patch (ex2d_patch_gpu_matrix.py) every flux bin with
\* fluxweight = 0 gets a strictly positive regularization diagonal entry and
\* the system is augmented, also when all pixels of the patch are masked
C26_ZeroWeightBinsAreConstrained ==
    (variant = "matrix" /\ spos \in {"solve", "solved"}) =>
        \A j \in 1..Len(fluxweight) :
            fluxweight[j] = 0 => (Idiag[j][1] > 0 /\ Augmented)

(***************************************************************************)
(* Claims about split_bundle (checked under SpecSplit).                    *)
(***************************************************************************)
Abs(x) == IF x < 0 THEN -x ELSE x

IsContiguousAscending(s) == \A k \in 1..(Len(s) - 1) : s[k + 1] = s[k] + 1

\* C7: for 1 <= n <= bundlesize the returned subbundles are n non-empty
\* contiguous ascending index ranges, pairwise disjoint, whose union is
\* exactly {0, ..., bundlesize-1}.
C7_SubbundlesPartition ==
    spc = "done" =>
        /\ Len(subbundles) = n
        /\ \A k \in 1..Len(subbundles) :
              /\ Len(subbundles[k]) >= 1
              /\ IsContiguousAscending(subbundles[k])
        /\ \A k, m \in 1..Len(subbundles) :
              k # m => SeqToSet(subbundles[k]) \cap SeqToSet(subbundles[m]) = {}
        /\ UNION {SeqToSet(subbundles[k]) : k \in 1..Len(subbundles)}
              = 0..(bundlesize - 1)

\* a split with a remainder and a middle group has returned
C7_Witness ==
    /\ spc = "done"
    /\ n >= 3
    /\ bundlesize % n # 0
    /\ Len(subbundles) = n

\* C8: the sizes of any two subbundles differ by at most 1, in the initial
\* partition, after every step of the swap pass, and in the returned arrays.
C8_SizesDifferByAtMostOne ==
    /\ spc \in {"swap", "extract", "done"} =>
          \A k, m \in 1..Len(n_per_subbundle) :
              Abs(n_per_subbundle[k] - n_per_subbundle[m]) <= 1
    /\ spc \in {"extract", "done"} =>
          \A k, m \in 1..Len(subbundles) :
              Abs(Len(subbundles[k]) - Len(subbundles[m])) <= 1

\* the swap pass has run on sizes that are not all equal and the split returned
C8_Witness ==
    /\ spc = "done"
    /\ i = n - 1
    /\ \E k, m \in 1..Len(subbundles) : Len(subbundles[k]) # Len(subbundles[m])

\* C9: for every returned subbundle [a..b] the matching extract_subbundle is
\* exactly [max(a-1,0) .. min(b+1,bundlesize-1)].
C9_ExtractIsPaddedSubbundle ==
    spc = "done" =>
        /\ Len(extract_subbundles) = Len(subbundles)
        /\ \A k \in 1..Len(subbundles) :
              LET a == subbundles[k][1]
                  b == subbundles[k][Len(subbundles[k])]
              IN  extract_subbundles[k] =
                      Arange(Max(a - 1, 0), Min(b + 1, bundlesize - 1) + 1)

\* a returned split with a first, a middle and a last subbundle
C9_Witness ==
    /\ spc = "done"
    /\ Len(extract_subbundles) >= 3
    /\ \E k \in 1..Len(subbundles) :
          /\ subbundles[k][1] > 0
          /\ subbundles[k][Len(subbundles[k])] < bundlesize - 1
          /\ Len(extract_subbundles[k]) = Len(subbundles[k]) + 2

\* C10: split_bundle(10, 3) returns subbundles [[0,1,2],[3,4,5],[6,7,8,9]]
\* and extract_subbundles [[0,1,2,3],[2,3,4,5,6],[5,6,7,8,9]].
C10_SplitTenThree ==
    (spc = "done" /\ bundlesize = 10 /\ n = 3) =>
        /\ subbundles = << <<0, 1, 2>>, <<3, 4, 5>>, <<6, 7, 8, 9>> >>
        /\ extract_subbundles =
              << <<0, 1, 2, 3>>, <<2, 3, 4, 5, 6>>, <<5, 6, 7, 8, 9>> >>

\* split_bundle(10, 3) has returned
C10_Witness ==
    /\ spc = "done"
    /\ bundlesize = 10
    /\ n = 3
    /\ Len(extract_subbundles) = 3

\* the sizes list after the swap pass has finished
SwapPassDone == spc \in {"extract", "done"}

C12_ExtractLengthsDifferByAtMostOne ==
    spc = "done" =>
        \A k, m \in 1..Len(extract_subbundles) :
            Abs(Len(extract_subbundles[k]) - Len(extract_subbundles[m])) <= 1

\* a split with a remainder has returned a middle extract_subbundle that is
\* longer than an edge one
C12_Witness ==
    /\ spc = "done"
    /\ n >= 3
    /\ bundlesize % n # 0
    /\ \E k \in 2..(n - 1) : Len(extract_subbundles[k]) > Len(extract_subbundles[1])

\* C13: with n > bundlesize split_bundle raises ValueError before any
\* partition is computed and returns no subbundles.
C13_TooManySubbundlesRaises ==
    n > bundlesize =>
        /\ spc \in {"start", "ValueError"}
        /\ n_per_subbundle = <<>>
        /\ subbundles = <<>>
        /\ extract_subbundles = <<>>

\* split_bundle has raised for n = bundlesize + 1
C13_Witness ==
    /\ spc = "ValueError"
    /\ n = bundlesize + 1
    /\ subbundles = <<>>


(***************************************************************************)
(* Claims about eigen_compose (checked under SpecEigen).                   *)
(***************************************************************************)

\* every eigenvalue is above the floor of the plain branch and its square
\* root above the floor of the square-root branch
AboveFloor ==
    \A k \in 1..Len(eigw) :
        /\ FGt(eigw[k], FMul(FMax(eigw), threshold))
        /\ FGt(FSqrt(eigw[k]), FMul(FSqrt(FMax(eigw)), threshold))

\* C21: for eigenvalues all above the floor, inverting twice returns the
\* eigenvalues w, and the squares of the eigenvalues of sqr=True are w (so
\* that both recompositions, with the same v, are the original matrix)
C21_RoundTrip ==
    (epos = 5 /\ AboveFloor) =>
        /\ wscaled[5] = [k \in 1..Len(eigw) |-> FInv(wscaled[3][k])]
        /\ wscaled[5] = eigw
        /\ [k \in 1..Len(eigw) |-> FMul(wscaled[2][k], wscaled[2][k])] = eigw

\* an eigenvalue of a result is floored: it is minval or 1/minval
Floored(res) == {k \in 1..Len(res) : res[k].t # 0}

\* the eigenvalues whose square root is not above 10*epsilon*sqrt(max(w))
SqrtNotAboveFloor ==
    {k \in 1..Len(eigw) :
        ~FGt(FSqrt(eigw[k]), FMul(FSqrt(FMax(eigw)), threshold))}

\* C25: in both square-root branches an eigenvalue is floored exactly when
\* its square root is not above 10*epsilon*sqrt(max(w)); the floored sets of
\* invert=False and invert=True are the same and the products of the
\* eigenvalues of the two results are 1
C25_SqrtBranchesFloorAlike ==
    epos >= 4 =>
        /\ Floored(wscaled[2]) = SqrtNotAboveFloor
        /\ Floored(wscaled[4]) = SqrtNotAboveFloor
        /\ \A k \in 1..Len(eigw) : FMul(wscaled[2][k], wscaled[4][k]) = FVal(0)


(***************************************************************************)
(* Claims about the chi2pix diagnostic (checked under SpecDiag).           *)
(***************************************************************************)

\* the pixels with positive inverse variance
Unmasked == {k \in 1..Len(subivar) : subivar[k] > 0}

\* the chi2 of flux bin j summed over the unmasked pixels alone
Chi2OfUnmasked(j) ==
    QSum([k \in 1..Len(subivar) |->
             IF k \in Unmasked
             THEN QMul(QInt(A[k][j] * (subimg[k] - submodel[k]) * (subimg[k] - submodel[k])),
                       totpix_ivar[k])
             ELSE <<0, 1>>])

\* the number of unmasked pixels that flux bin j projects on, with weight
WeightOfUnmasked(j) ==
    SumSeq([k \in 1..Len(subivar) |-> IF k \in Unmasked THEN A[k][j] ELSE 0])

\* C27: a flux bin whose psfweight is 0 gets the chi2pix 0 (a number, not
\* nan or inf), and a pixel with inverse variance 0 has the combined weight
\* 0 and adds nothing to the chi-square or the weight of any bin
C27_MaskedPixelsAndEmptyBins ==
    dpos = "done" =>
        /\ \A j \in 1..Len(chi2x) :
              /\ chi2x[j].kind = "num"
              /\ psfweight[j] = 0 => chi2x[j] = FloatNum(<<0, 1>>)
              /\ psfweight[j] = WeightOfUnmasked(j)
              /\ psfweight[j] # 0 =>
                    chi2x[j] = FloatDiv(Chi2OfUnmasked(j), WeightOfUnmasked(j))
        /\ \A k \in 1..Len(subivar) : subivar[k] = 0 => totpix_ivar[k] = <<0, 1>>

\* a flux bin that only projects on a masked pixel, whose image differs
\* from the model, beside a bin with a positive chi2pix
C27_Witness ==
    /\ dpos = "done"
    /\ \E j \in 1..Len(chi2x), k \in 1..Len(subivar) :
          /\ psfweight[j] = 0
          /\ A[k][j] = 1
          /\ subivar[k] = 0
          /\ subimg[k] # submodel[k]
    /\ \E j \in 1..Len(chi2x) : chi2x[j].q[1] > 0

====
